---- MODULE Spec2Model ----
(***************************************************************************)
(* Reactive view binding of tachys (src/tachys/src/reactive_graph/mod.rs): *)
(* a reactive function in view position is bound to a render effect, the   *)
(* effect is the retained state of the view slot, and the Mountable        *)
(* implementations forward mount / unmount / insert_before_this to the     *)
(* state the effect holds.                                                 *)
(***************************************************************************)
EXTENDS Integers, Sequences, FiniteSets, TLC

\* ------------------------------------------------------------------ bounds
MaxVal == 1
MaxBatches == 2
MaxRebuilds == 1
MaxCalls == 3
MaxHandles == 3
MaxSlots == 2
MaxTasks == 3
MaxWrites == 2
MaxDry == 1

Sigs == {1, 2}
Vals == 0..MaxVal

\* The two static siblings of the slot ("Hello, my " and " friends.").
SibA == 1
SibB == 2
Statics == {SibA, SibB}

None == [kind |-> "none"]

VARIABLES
    sig,        \* sig[s]: the current value of signal s
    tree,       \* the children of the parent element, in traversal order
    text,       \* text[n]: the content of text node n (every node ever created)
    eff,        \* eff[e]: render effect e (function, held value, subscriptions, counters)
    slot,       \* the view slot's RenderEffectState: None or [kind |-> "res", eff |-> e]
    pc,         \* position inside Render::rebuild: "idle", "replaced", "inserted"
    hand,       \* the hand-off of the rebuild in progress / just completed, or None
    nBatches,   \* dependency mutation batches so far
    nRebuilds,  \* Render::rebuild calls so far
    bholder,    \* Mountable bridge: the state the operations are applied to
    blast,      \* Mountable bridge: the last operation, its inputs and result
    poisoned,   \* shared function: whether its mutex is poisoned
    calls,      \* shared function: calls of the underlying closure so far
    at,         \* at[h]: position of handle h in invoke: "idle" or "locked"
    out,        \* out[h]: how the last invoke through handle h ended
    sslots,     \* Suspend: sslots[s], the shared slot made by the s-th build/hydrate
    stasks,     \* Suspend: stasks[t], the t-th task given to Executor::spawn_local
    buf,        \* HTML serialization: the chunks written to the buffer / stream
    dom,        \* hydration: dom[p], the content of place p of the document
    bound,      \* hydration: bound[p], None or the effect bound to place p
    arb,        \* attribute rebuild: arb[p], the functions passed to rebuild at p
    cells,      \* dry pre-pass: cells[c], the calls and reads of cell variety c
    woken       \* Suspend, task queue: the tasks in the order they were woken

renderOnly == <<sig, text, eff, slot, pc, hand, nBatches, nRebuilds>>
bridgeOnly == <<bholder, blast>>
sharedOnly == <<poisoned, calls, at, out>>
suspendOnly == <<sslots, stasks, woken>>
htmlOnly == <<buf>>
hydrateOnly == <<dom, bound, arb>>
cellsOnly == <<cells>>
serverOnly == <<htmlOnly, hydrateOnly, cellsOnly>>
notRender == <<bridgeOnly, sharedOnly, suspendOnly, serverOnly>>
notBridge == <<renderOnly, sharedOnly, suspendOnly, serverOnly>>
notShared == <<renderOnly, tree, bridgeOnly, suspendOnly, serverOnly>>
notQueue == <<renderOnly, tree, bridgeOnly, sharedOnly, serverOnly>>
notSuspend == <<notQueue, woken>>
notHtml == <<tree, slot, pc, hand, nBatches, nRebuilds,
             bridgeOnly, sharedOnly, suspendOnly, hydrateOnly, cellsOnly>>
notHydrate == <<tree, text, eff, slot, pc, hand, nRebuilds,
                bridgeOnly, sharedOnly, suspendOnly, htmlOnly, cellsOnly>>
notCells == <<renderOnly, tree, bridgeOnly, sharedOnly, suspendOnly,
              htmlOnly, hydrateOnly>>

vars == <<sig, tree, text, eff, slot, pc, hand, nBatches, nRebuilds,
          bholder, blast, poisoned, calls, at, out, sslots, stasks,
          buf, dom, bound, arb, cells, woken>>

\* The components that take no part in a specification stay as constructed.
SuspendIdle == sslots = <<>> /\ stasks = <<>> /\ woken = <<>>
HtmlIdle == buf = <<>>
HydrateIdle == dom = <<>> /\ bound = <<>> /\ arb = <<>>
CellsIdle == cells = <<>>
ServerIdle == HtmlIdle /\ HydrateIdle /\ CellsIdle

\* ------------------------------------------------------------ sequences
RECURSIVE Without(_, _)
Without(s, n) ==
    IF s = <<>> THEN <<>>
    ELSE IF Head(s) = n THEN Without(Tail(s), n)
    ELSE <<Head(s)>> \o Without(Tail(s), n)

RECURSIVE InsertBefore(_, _, _)
InsertBefore(s, n, m) ==
    IF s = <<>> THEN <<n>>
    ELSE IF Head(s) = m THEN <<n>> \o s
    ELSE <<Head(s)>> \o InsertBefore(Tail(s), n, m)

Elems(s) == {s[i] : i \in 1..Len(s)}

IndexOf(s, n) == CHOOSE i \in 1..Len(s) : s[i] = n

\* ------------------------------------------------------ reactive functions
\* The closures placed in view position: f reads the signals FnDeps(f) and
\* returns the text of their sum (move || count.get().to_string()).
Fns == {1, 2, 3}

FnDeps(f) ==
    CASE f = 1 -> {1}
      [] f = 2 -> {2}
      [] f = 3 -> {1, 2}

FnValue(f, sg) ==
    CASE f = 1 -> sg[1]
      [] f = 2 -> sg[2]
      [] f = 3 -> sg[1] + sg[2]

\* ----------------------------------------------------------- leaf states
Leaf(n) == [kind |-> "leaf", node |-> n]

\* V::build for a text value: a new, unmounted text node holding the value.
Text_build(value, txt) ==
    [state |-> Leaf(Len(txt) + 1), text |-> Append(txt, value)]

\* V::rebuild for a text value: the content of the existing node is set in place.
Text_rebuild(value, state, txt) ==
    [txt EXCEPT ![state.node] = value]

\* ------------------------------------------------------------- Mountable
\* A mountable state is a record: a text node (Leaf), a RenderEffectState
\* ("res", inner: None or a RenderEffect), a RenderEffect ("eff", value: None
\* or the state it holds), a Result ("result", ok, inner) or the shared slot
\* of a Suspend ("slot", inner: None or the resolved state).  mount and
\* unmount give the new child list of the parent; insert_before_this gives
\* the new child list and the boolean it returns.  marker 0 is no marker.
RECURSIVE Mount(_, _, _), Unmount(_, _), InsertBeforeThis(_, _, _)

\* Mountable for a text node: insert before the marker (append without one),
\* remove from the parent, and mount the child before this node when this
\* node has a parent.
Leaf_mount(h, t, marker) ==
    IF marker = 0 THEN Append(Without(t, h.node), h.node)
    ELSE InsertBefore(Without(t, h.node), h.node, marker)

Leaf_unmount(h, t) == Without(t, h.node)

Leaf_insert_before_this(h, child, t) ==
    IF h.node \in Elems(t)
    THEN [tree |-> Mount(child, t, h.node), ok |-> TRUE]
    ELSE [tree |-> t, ok |-> FALSE]

\* impl Mountable for RenderEffectState<T>
RenderEffectState_unmount(h, t) ==
    IF h.inner # None THEN Unmount(h.inner, t) ELSE t

RenderEffectState_mount(h, t, marker) ==
    IF h.inner # None THEN Mount(h.inner, t, marker) ELSE t

RenderEffectState_insert_before_this(h, child, t) ==
    IF h.inner # None THEN InsertBeforeThis(h.inner, child, t)
    ELSE [tree |-> t, ok |-> FALSE]

\* RenderEffect::with_value_mut: the closure is applied to the held value
\* when there is one; the result is None otherwise.
WithValueMut(h) == h.value # None

\* A variant with a fault: unwrap_or(true), success reported with no value.
RenderEffect_insert_reports_success(h, child, t) ==
    IF WithValueMut(h) THEN InsertBeforeThis(h.value, child, t)
    ELSE [tree |-> t, ok |-> TRUE]

\* impl Mountable for RenderEffect<M>
RenderEffect_unmount(h, t) ==
    IF WithValueMut(h) THEN Unmount(h.value, t) ELSE t

RenderEffect_mount(h, t, marker) ==
    IF WithValueMut(h) THEN Mount(h.value, t, marker) ELSE t

RenderEffect_insert_before_this(h, child, t) ==
    IF WithValueMut(h) THEN InsertBeforeThis(h.value, child, t)
    ELSE [tree |-> t, ok |-> FALSE]

\* A variant with a fault: the failure case mounts the child at the end.
Result_insert_mounts_on_err(h, child, t) ==
    IF h.ok THEN InsertBeforeThis(h.inner, child, t)
    ELSE [tree |-> Mount(child, t, 0), ok |-> FALSE]

\* impl Mountable for Result<M, E>
Result_unmount(h, t) ==
    IF h.ok THEN Unmount(h.inner, t) ELSE t

Result_mount(h, t, marker) ==
    IF h.ok THEN Mount(h.inner, t, marker) ELSE t

Result_insert_before_this(h, child, t) ==
    IF h.ok THEN InsertBeforeThis(h.inner, child, t)
    ELSE [tree |-> t, ok |-> FALSE]

\* Mountable for the shared slot Rc<RefCell<Option<State>>> of a Suspend.
Slot_unmount(h, t) ==
    IF h.inner # None THEN Unmount(h.inner, t) ELSE t

Slot_mount(h, t, marker) ==
    IF h.inner # None THEN Mount(h.inner, t, marker) ELSE t

Slot_insert_before_this(h, child, t) ==
    IF h.inner # None THEN InsertBeforeThis(h.inner, child, t)
    ELSE [tree |-> t, ok |-> FALSE]

\* Dynamic dispatch on the state's type.
Unmount(h, t) ==
    CASE h.kind = "leaf" -> Leaf_unmount(h, t)
      [] h.kind = "res" -> RenderEffectState_unmount(h, t)
      [] h.kind = "eff" -> RenderEffect_unmount(h, t)
      [] h.kind = "result" -> Result_unmount(h, t)
      [] h.kind = "slot" -> Slot_unmount(h, t)

Mount(h, t, marker) ==
    CASE h.kind = "leaf" -> Leaf_mount(h, t, marker)
      [] h.kind = "res" -> RenderEffectState_mount(h, t, marker)
      [] h.kind = "eff" -> RenderEffect_mount(h, t, marker)
      [] h.kind = "result" -> Result_mount(h, t, marker)
      [] h.kind = "slot" -> Slot_mount(h, t, marker)

InsertBeforeThis(h, child, t) ==
    CASE h.kind = "leaf" -> Leaf_insert_before_this(h, child, t)
      [] h.kind = "res" -> RenderEffectState_insert_before_this(h, child, t)
      [] h.kind = "eff" -> RenderEffect_insert_before_this(h, child, t)
      [] h.kind = "result" -> Result_insert_before_this(h, child, t)
      [] h.kind = "slot" -> Slot_insert_before_this(h, child, t)

\* ---------------------------------------------------------- render effect
\* The RenderEffectState of effect number e, as a mountable state.
ResOf(effs, e) ==
    [kind |-> "res", inner |-> [kind |-> "eff", value |-> effs[e].value]]

\* Variants of the closure with a fault: the function is invoked twice on a
\* run; a re-run keeps the old state without rebuilding it; a re-run builds a
\* new state instead of rebuilding the old one.
Build_closure_invokes_twice(f, prev, sg, txt) ==
    LET value == FnValue(f, sg) IN
    IF prev # None
    THEN [state |-> prev, text |-> Text_rebuild(value, prev, txt),
          invoked |-> 2, built |-> 0, rebuilt |-> 1]
    ELSE LET b == Text_build(value, txt) IN
         [state |-> b.state, text |-> b.text,
          invoked |-> 2, built |-> 1, rebuilt |-> 0]

Build_closure_keeps_stale(f, prev, sg, txt) ==
    LET value == FnValue(f, sg) IN
    IF prev # None
    THEN [state |-> prev, text |-> txt,
          invoked |-> 1, built |-> 0, rebuilt |-> 0]
    ELSE LET b == Text_build(value, txt) IN
         [state |-> b.state, text |-> b.text,
          invoked |-> 1, built |-> 1, rebuilt |-> 0]

Build_closure_always_builds(f, prev, sg, txt) ==
    LET value == FnValue(f, sg)
        b == Text_build(value, txt) IN
    [state |-> b.state, text |-> b.text,
     invoked |-> 1, built |-> 1, rebuilt |-> 0]

\* The closure Render::build hands to RenderEffect::new: invoke the function,
\* then rebuild the state of the previous run in place, or build the first
\* state.  invoked / built / rebuilt count the calls the run makes.
Build_closure(f, prev, sg, txt) ==
    LET value == FnValue(f, sg) IN
    IF prev # None
    THEN [state |-> prev, text |-> Text_rebuild(value, prev, txt),
          invoked |-> 1, built |-> 0, rebuilt |-> 1]
    ELSE LET b == Text_build(value, txt) IN
         [state |-> b.state, text |-> b.text,
          invoked |-> 1, built |-> 1, rebuilt |-> 0]

\* RenderEffect::new: the closure runs at once with no previous value, and the
\* effect subscribes to what the run read.
RenderEffect_new(f, sg, txt) ==
    LET r == Build_closure(f, None, sg, txt) IN
    [effect |-> [fn |-> f, value |-> r.state, live |-> TRUE,
                 runs |-> r.invoked, builds |-> r.built, rebuilds |-> r.rebuilt,
                 triggers |-> 0, nodes |-> (Len(txt) + 1)..Len(r.text),
                 replacedAt |-> -1],
     text |-> r.text]

\* A re-run of the effect: the closure gets the value of the previous run.
RenderEffect_rerun(rec, sg, txt) ==
    LET r == Build_closure(rec.fn, rec.value, sg, txt) IN
    [effect |-> [rec EXCEPT !.value = r.state,
                            !.runs = @ + r.invoked,
                            !.builds = @ + r.built,
                            !.rebuilds = @ + r.rebuilt,
                            !.nodes = @ \cup ((Len(txt) + 1)..Len(r.text))],
     text |-> r.text]

\* Dropping a RenderEffect ends its subscriptions.
RenderEffect_drop(rec) == [rec EXCEPT !.live = FALSE]

\* impl Render for F :: build
Render_build(f, sg, txt) == RenderEffect_new(f, sg, txt)

\* One mutation batch writing the signals in S: every live effect that reads
\* one of them re-runs once, effects 1..Len(effs) in turn from effect i.
RECURSIVE Notify(_, _, _, _, _)
Notify(i, effs, S, sg, txt) ==
    IF i > Len(effs) THEN [eff |-> effs, text |-> txt]
    ELSE IF effs[i].live /\ FnDeps(effs[i].fn) \cap S # {}
    THEN LET r == RenderEffect_rerun(effs[i], sg, txt) IN
         Notify(i + 1, [effs EXCEPT ![i] = r.effect], S, sg, r.text)
    ELSE Notify(i + 1, effs, S, sg, txt)

\* impl Render for F :: rebuild, line by line.
Rebuild_replace(f, effs, sg, txt) ==
    LET b == Render_build(f, sg, txt) IN
    [eff |-> Append(effs, b.effect), slot |-> Len(effs) + 1, text |-> b.text]

\* Variants of the hand-off with a fault: the new state is appended to the
\* parent instead of inserted before the old one; the old state is unmounted
\* before the new one is inserted; the old state is never unmounted; the old
\* effect is kept alive.
Rebuild_appends_new(old, new, t) ==
    [tree |-> Mount(new, t, 0), ok |-> TRUE]

Rebuild_unmounts_first(old, new, t) ==
    [tree |-> Unmount(old, t), ok |-> FALSE]

Rebuild_keeps_old_mounted(old, t) == t

Rebuild_keeps_old_effect(rec) == rec

Rebuild_insert_before_this(old, new, t) == InsertBeforeThis(old, new, t)

Rebuild_unmount(old, t) == Unmount(old, t)

Rebuild_drop(rec) == RenderEffect_drop(rec)

\* ----------------------------------------------------------------- actions
Init ==
    /\ sig = [s \in Sigs |-> 0]
    /\ tree = <<SibA, SibB>>
    /\ text = <<-1, -2>>
    /\ eff = <<>>
    /\ slot = 0
    /\ pc = "idle"
    /\ hand = None
    /\ nBatches = 0
    /\ nRebuilds = 0
    /\ bholder = None
    /\ blast = None
    /\ poisoned = FALSE
    /\ calls = 0
    /\ at = <<"idle">>
    /\ out = <<None>>
    /\ SuspendIdle
    /\ ServerIdle

SlotNode == eff[slot].value.node

\* The parent builds the slot from the reactive function f.
Build(f) ==
    /\ pc = "idle" /\ slot = 0
    /\ LET b == Render_build(f, sig, text) IN
       /\ eff' = Append(eff, b.effect)
       /\ slot' = Len(eff) + 1
       /\ text' = b.text
    /\ hand' = None
    /\ UNCHANGED <<sig, tree, pc, nBatches, nRebuilds>>
    /\ UNCHANGED notRender

\* The parent mounts the slot's state before marker (0: at the end).
MountSlot(marker) ==
    /\ pc = "idle" /\ slot # 0
    /\ marker \in ({0} \cup Elems(tree)) \ {SlotNode}
    /\ tree' = Mount(ResOf(eff, slot), tree, marker)
    /\ hand' = None
    /\ UNCHANGED <<sig, text, eff, slot, pc, nBatches, nRebuilds>>
    /\ UNCHANGED notRender

UnmountSlot ==
    /\ pc = "idle" /\ slot # 0
    /\ tree' = Unmount(ResOf(eff, slot), tree)
    /\ hand' = None
    /\ UNCHANGED <<sig, text, eff, slot, pc, nBatches, nRebuilds>>
    /\ UNCHANGED notRender

\* A batch of signal writes, and the re-runs it triggers.  triggers counts,
\* for each effect, the batches that wrote one of its dependencies while it
\* was subscribed.
SetBatch(S, new) ==
    /\ pc = "idle" /\ nBatches < MaxBatches
    /\ sig' = [s \in Sigs |-> IF s \in S THEN new[s] ELSE sig[s]]
    /\ LET r == Notify(1, eff, S, sig', text) IN
       /\ eff' = [e \in 1..Len(eff) |->
                    IF eff[e].live /\ FnDeps(eff[e].fn) \cap S # {}
                    THEN [r.eff[e] EXCEPT !.triggers = @ + 1]
                    ELSE r.eff[e]]
       /\ text' = r.text
    /\ nBatches' = nBatches + 1
    /\ hand' = None
    /\ UNCHANGED <<tree, slot, pc, nRebuilds>>
    /\ UNCHANGED notRender

\* Render::rebuild(f, &mut slot): let new = self.build();
\* let mut old = std::mem::replace(state, new);
RebuildStart(f) ==
    /\ pc = "idle" /\ slot # 0 /\ nRebuilds < MaxRebuilds
    /\ LET r == Rebuild_replace(f, eff, sig, text) IN
       /\ eff' = r.eff
       /\ slot' = r.slot
       /\ text' = r.text
    /\ hand' = [kind |-> "hand", old |-> slot, before |-> tree,
                wasMounted |-> SlotNode \in Elems(tree),
                ret |-> FALSE, done |-> FALSE]
    /\ pc' = "replaced"
    /\ nRebuilds' = nRebuilds + 1
    /\ UNCHANGED <<sig, tree, nBatches>>
    /\ UNCHANGED notRender

\* old.insert_before_this(state);
RebuildInsert ==
    /\ pc = "replaced"
    /\ LET r == Rebuild_insert_before_this(ResOf(eff, hand.old),
                                           ResOf(eff, slot), tree) IN
       /\ tree' = r.tree
       /\ hand' = [hand EXCEPT !.ret = r.ok]
    /\ pc' = "inserted"
    /\ UNCHANGED <<sig, text, eff, slot, nBatches, nRebuilds>>
    /\ UNCHANGED notRender

\* old.unmount(); and old is dropped when rebuild returns.
RebuildUnmount ==
    /\ pc = "inserted"
    /\ tree' = Rebuild_unmount(ResOf(eff, hand.old), tree)
    /\ eff' = [eff EXCEPT ![hand.old] =
                   [Rebuild_drop(@) EXCEPT !.replacedAt = eff[hand.old].runs]]
    /\ hand' = [hand EXCEPT !.done = TRUE]
    /\ pc' = "idle"
    /\ UNCHANGED <<sig, text, slot, nBatches, nRebuilds>>
    /\ UNCHANGED notRender

Next ==
    \/ \E f \in Fns : Build(f)
    \/ \E m \in 0..Len(text) : MountSlot(m)
    \/ UnmountSlot
    \/ \E S \in (SUBSET Sigs) \ {{}} : \E new \in [Sigs -> Vals] : SetBatch(S, new)
    \/ \E f \in Fns : RebuildStart(f)
    \/ RebuildInsert
    \/ RebuildUnmount

Spec == Init /\ [][Next]_vars

\* ------------------------------------------------------------ properties
Effects == 1..Len(eff)

NodeOf(e) == eff[e].value.node

Mounted(n) == n \in Elems(tree)

Dynamic == {n \in Elems(tree) : n \notin Statics}

Replace(s, a, b) == [i \in 1..Len(s) |-> IF s[i] = a THEN b ELSE s[i]]

HandedOff == hand # None /\ hand.done

\* C1: Render::build invokes the function exactly once, during build and
\* before any dependency change, and that first run makes the slot's state
\* with the value's build, never with rebuild.
C1_BuildInvokesOnce ==
    \A e \in Effects :
        eff[e].triggers = 0 =>
            /\ eff[e].runs = 1
            /\ eff[e].builds = 1
            /\ eff[e].rebuilds = 0
            /\ eff[e].value # None
            /\ eff[e].nodes = {NodeOf(e)}

C1_Witness ==
    /\ slot # 0 /\ nBatches = 0 /\ nRebuilds = 0
    /\ eff[slot].runs = 1 /\ eff[slot].builds = 1

\* C2: after build, every mutation batch that writes a dependency re-invokes
\* the function exactly once, and the retained state then holds the latest
\* value of the function and nothing of an earlier run.
C2_RerunOncePerBatch ==
    \A e \in Effects :
        /\ eff[e].runs = 1 + eff[e].triggers
        /\ eff[e].live => text[NodeOf(e)] = FnValue(eff[e].fn, sig)

C2_Witness ==
    \E e \in Effects :
        /\ eff[e].live /\ eff[e].triggers = 2 /\ eff[e].runs = 3
        /\ FnValue(eff[e].fn, sig) # 0
        /\ text[NodeOf(e)] = FnValue(eff[e].fn, sig)

\* C3: over the re-runs of one render effect the value's build is called
\* once, on the first run, every later run rebuilds the state of the previous
\* run, the slot has one node, and a batch leaves the parent's child list and
\* every node that is not the state of a re-run effect unchanged.
C3_StateInv ==
    \A e \in Effects :
        /\ eff[e].builds = 1
        /\ eff[e].rebuilds = eff[e].runs - 1
        /\ Cardinality(eff[e].nodes) = 1
        /\ NodeOf(e) \in eff[e].nodes

C3_BatchStep ==
    nBatches' # nBatches =>
        /\ tree' = tree
        /\ Len(text') = Len(text)
        /\ \A n \in 1..Len(text) :
              (\A e \in Effects : eff'[e].runs = eff[e].runs \/ NodeOf(e) # n)
                  => text'[n] = text[n]
        /\ \A e \in Effects : eff'[e].value = eff[e].value

\* C3: build once, rebuild of the same state on every later run, one node per
\* slot, siblings untouched by a re-run.
C3_BuildOnceRebuildAfter == [](C3_StateInv) /\ [][C3_BatchStep]_vars

C3_Witness ==
    \E e \in Effects :
        /\ eff[e].runs = 3 /\ eff[e].builds = 1 /\ eff[e].rebuilds = 2
        /\ tree = <<SibA, NodeOf(e), SibB>>

\* C4: when Render::rebuild has replaced a mounted state, the new state's
\* node stands where the old state's node stood, the other children keep
\* their order, and the old state's node is out of the tree.
C4_HandOffPosition ==
    (HandedOff /\ hand.wasMounted) =>
        /\ tree = Replace(hand.before, NodeOf(hand.old), SlotNode)
        /\ ~Mounted(NodeOf(hand.old))

C4_Witness ==
    /\ HandedOff /\ hand.wasMounted
    /\ hand.before = <<SibA, NodeOf(hand.old), SibB>>
    /\ tree = <<SibA, SlotNode, SibB>>

\* C5: during Render::rebuild of a mounted slot the new state is inserted
\* right before the old one before the old one is unmounted: at every step
\* of the hand-off the old or the new state is mounted.
C5_NoGap ==
    (hand # None /\ hand.wasMounted) =>
        /\ Mounted(NodeOf(hand.old)) \/ Mounted(SlotNode)
        /\ pc = "replaced" => Mounted(NodeOf(hand.old)) /\ ~Mounted(SlotNode)
        /\ pc = "inserted" =>
              /\ Mounted(NodeOf(hand.old)) /\ Mounted(SlotNode)
              /\ IndexOf(tree, SlotNode) + 1 = IndexOf(tree, NodeOf(hand.old))

C5_Witness ==
    /\ pc = "inserted" /\ hand.wasMounted
    /\ Mounted(NodeOf(hand.old)) /\ Mounted(SlotNode)

\* C6: between operations (after any sequence of builds, re-runs and
\* completed hand-offs) the slot has at most one mounted output, the state the
\* slot holds, and at most one effect is subscribed.
C6_OneLiveOutput ==
    pc = "idle" =>
        /\ Cardinality(Dynamic) <= 1
        /\ slot # 0 => Dynamic \subseteq {SlotNode}
        /\ slot = 0 => Dynamic = {}
        /\ Cardinality({e \in Effects : eff[e].live}) <= 1

C6_Witness ==
    /\ pc = "idle" /\ nRebuilds >= 1 /\ nBatches >= 1
    /\ hand = None
    /\ Dynamic = {SlotNode}

\* C7: once Render::rebuild has returned the old effect is gone: its function
\* is never invoked again, and a batch that writes no dependency of the
\* slot's function changes neither the slot's node nor the tree.
C7_StateInv ==
    \A e \in Effects :
        eff[e].replacedAt # -1 =>
            /\ ~eff[e].live
            /\ e # slot
            /\ eff[e].runs = eff[e].replacedAt

C7_BatchStep ==
    (/\ nBatches' # nBatches /\ slot # 0
     /\ \A s \in FnDeps(eff[slot].fn) : sig'[s] = sig[s]) =>
        /\ tree' = tree
        /\ text'[SlotNode] = text[SlotNode]

\* C7: the old effect's function is never invoked after rebuild returned, and
\* a change of its dependencies alone never changes the slot.
C7_OldEffectDiscarded == [](C7_StateInv) /\ [][C7_BatchStep]_vars

C7_Witness ==
    \E e \in Effects :
        /\ eff[e].replacedAt # -1
        /\ FnDeps(eff[e].fn) \cap FnDeps(eff[slot].fn) = {}
        /\ text[NodeOf(e)] # FnValue(eff[e].fn, sig)

\* ------------------------------------------------------- Mountable bridge
\* The Mountable operations applied to each shape of state holder, with the
\* holder's node and the child's node mounted or not beforehand.
HNode == 3
CNode == 4

ResState(v) == [kind |-> "res", inner |-> v]
EffState(v) == [kind |-> "eff", value |-> v]
SlotState(v) == [kind |-> "slot", inner |-> v]
OkState(v) == [kind |-> "result", ok |-> TRUE, inner |-> v]
ErrState == [kind |-> "result", ok |-> FALSE, inner |-> None]

\* What a holder can hold: nothing, a text node, or a Result of one.
BridgeValues == {None, Leaf(HNode), OkState(Leaf(HNode)), ErrState}

BridgeHolders ==
    {ResState(None)}
    \cup {ResState(EffState(v)) : v \in BridgeValues}
    \cup {EffState(v) : v \in BridgeValues}
    \cup {SlotState(v) : v \in BridgeValues}
    \cup {OkState(Leaf(HNode)), ErrState}

BridgeChildren == {Leaf(CNode), ResState(EffState(Leaf(CNode)))}

\* The state a holder forwards to: None when it holds nothing.
RECURSIVE HeldState(_)
HeldState(h) ==
    CASE h.kind = "res" -> IF h.inner = None THEN None ELSE HeldState(h.inner)
      [] h.kind = "eff" -> h.value
      [] h.kind = "slot" -> h.inner
      [] OTHER -> h

RECURSIVE HasNode(_, _)
HasNode(h, n) ==
    CASE h.kind = "none" -> FALSE
      [] h.kind = "leaf" -> h.node = n
      [] h.kind = "eff" -> HasNode(h.value, n)
      [] OTHER -> HasNode(h.inner, n)

\* The child lists the parent can have: the static siblings in order, and any
\* of the two other nodes at any place.
BridgeTrees ==
    {t \in UNION {[1..k -> {SibA, SibB, HNode, CNode}] : k \in 2..4} :
        /\ \A i, j \in 1..Len(t) : i # j => t[i] # t[j]
        /\ \E i, j \in 1..Len(t) : i < j /\ t[i] = SibA /\ t[j] = SibB}

InitBridge ==
    /\ sig = [s \in Sigs |-> 0]
    /\ text = <<-1, -2, 0, 0>>
    /\ eff = <<>>
    /\ slot = 0
    /\ pc = "idle"
    /\ hand = None
    /\ nBatches = 0
    /\ nRebuilds = 0
    /\ bholder \in BridgeHolders
    /\ tree \in {t \in BridgeTrees : HNode \in Elems(t) => HasNode(bholder, HNode)}
    /\ blast = None
    /\ poisoned = FALSE
    /\ calls = 0
    /\ at = <<"idle">>
    /\ out = <<None>>
    /\ SuspendIdle
    /\ ServerIdle

BridgeMount(marker) ==
    /\ marker \in ({0} \cup Elems(tree)) \ {HNode}
    /\ tree' = Mount(bholder, tree, marker)
    /\ blast' = [kind |-> "op", op |-> "mount", before |-> tree,
                 marker |-> marker, child |-> None, ret |-> FALSE]
    /\ UNCHANGED bholder
    /\ UNCHANGED notBridge

BridgeUnmount ==
    /\ tree' = Unmount(bholder, tree)
    /\ blast' = [kind |-> "op", op |-> "unmount", before |-> tree,
                 marker |-> 0, child |-> None, ret |-> FALSE]
    /\ UNCHANGED bholder
    /\ UNCHANGED notBridge

BridgeInsertBefore(child) ==
    /\ LET r == InsertBeforeThis(bholder, child, tree) IN
       /\ tree' = r.tree
       /\ blast' = [kind |-> "op", op |-> "insert_before_this", before |-> tree,
                    marker |-> 0, child |-> child, ret |-> r.ok]
    /\ UNCHANGED bholder
    /\ UNCHANGED notBridge

NextBridge ==
    \/ \E m \in {0, SibA, SibB, CNode} : BridgeMount(m)
    \/ BridgeUnmount
    \/ \E c \in BridgeChildren : BridgeInsertBefore(c)

SpecBridge == InitBridge /\ [][NextBridge]_vars

\* The last bridge operation did to the tree, and returned, what the same
\* operation on the state m does.
SameAsOn(m) ==
    CASE blast.op = "mount" -> tree = Mount(m, blast.before, blast.marker)
      [] blast.op = "unmount" -> tree = Unmount(m, blast.before)
      [] blast.op = "insert_before_this" ->
            LET r == InsertBeforeThis(m, blast.child, blast.before) IN
            tree = r.tree /\ blast.ret = r.ok

Inert == tree = blast.before /\ blast.ret = FALSE

\* C8: on a holder with no held state (an unresolved slot, a
\* RenderEffectState with no effect, an effect with no value) mount, unmount
\* and insert_before_this change nothing and insert_before_this returns
\* false; on a holder with a state each operation does what it does on the
\* held state, and insert_before_this returns the held state's result.
C8_BridgeNoOp ==
    (blast # None /\ bholder.kind \in {"res", "eff", "slot"}) =>
        IF HeldState(bholder) = None THEN Inert
        ELSE SameAsOn(HeldState(bholder))

C8_Witness ==
    /\ blast # None /\ blast.op = "insert_before_this"
    /\ bholder = ResState(None)
    /\ CNode \notin Elems(tree) /\ ~blast.ret

\* C9: on a Result state the three operations act on the success case only:
\* with a failure value the tree is unchanged, the child is not mounted and
\* insert_before_this returns false; with a success value the operation is
\* the inner state's.
C9_ResultInert ==
    (blast # None /\ HeldState(bholder).kind = "result") =>
        IF HeldState(bholder).ok THEN SameAsOn(HeldState(bholder).inner)
        ELSE /\ Inert
             /\ blast.op = "insert_before_this" =>
                   (CNode \in Elems(tree) <=> CNode \in Elems(blast.before))

C9_Witness ==
    /\ blast # None /\ blast.op = "insert_before_this"
    /\ bholder = ErrState
    /\ CNode \notin Elems(tree) /\ ~blast.ret

\* ------------------------------------------------- shared reactive function
\* SharedReactiveFunction<T> = Arc<Mutex<dyn FnMut() -> T + Send>>: handles
\* 1..Len(at) are the clones of one Arc, each used by its own caller.
Handles == 1..Len(at)

\* Mutex::lock: an error when the mutex is poisoned, the guard otherwise.
Mutex_lock(p) == IF p THEN "err" ELSE "guard"

\* A variant with a fault: the poison is ignored and the guard recovered.
Shared_lock_ignores_poison(p) == "guard"

\* let mut fun = self.lock().expect("lock poisoned");
Shared_lock(p) == IF Mutex_lock(p) = "err" THEN "panic" ELSE "guard"

\* A guard dropped while its thread panics poisons the mutex.
Mutex_drop_guard(p, panicking) == p \/ panicking

InitShared ==
    /\ sig = [s \in Sigs |-> 0]
    /\ tree = <<SibA, SibB>>
    /\ text = <<-1, -2>>
    /\ eff = <<>>
    /\ slot = 0
    /\ pc = "idle"
    /\ hand = None
    /\ nBatches = 0
    /\ nRebuilds = 0
    /\ bholder = None
    /\ blast = None
    /\ poisoned = FALSE
    /\ calls = 0
    /\ at = <<"idle">>
    /\ out = <<None>>
    /\ SuspendIdle
    /\ ServerIdle

\* Arc::clone of the shared function.
SharedClone ==
    /\ Len(at) < MaxHandles
    /\ at' = Append(at, "idle")
    /\ out' = Append(out, None)
    /\ UNCHANGED <<poisoned, calls>>
    /\ UNCHANGED notShared

\* invoke, up to the lock: the caller waits while another holds the lock, and
\* panics with "lock poisoned" when the mutex is poisoned.
SharedInvokeLock(h) ==
    /\ at[h] = "idle"
    /\ \A g \in Handles : at[g] # "locked"
    /\ IF Shared_lock(poisoned) = "panic"
       THEN /\ out' = [out EXCEPT ![h] = [kind |-> "poisoned"]]
            /\ UNCHANGED at
       ELSE /\ at' = [at EXCEPT ![h] = "locked"]
            /\ UNCHANGED out
    /\ UNCHANGED <<poisoned, calls>>
    /\ UNCHANGED notShared

\* invoke, fun(): the closure runs under the lock and returns a value or
\* panics; the guard is dropped either way.
SharedInvokeCall(h, panics) ==
    /\ at[h] = "locked"
    /\ calls < MaxCalls
    /\ calls' = calls + 1
    /\ out' = [out EXCEPT ![h] =
                  IF panics THEN [kind |-> "panic"]
                  ELSE [kind |-> "value", val |-> calls + 1]]
    /\ poisoned' = Mutex_drop_guard(poisoned, panics)
    /\ at' = [at EXCEPT ![h] = "idle"]
    /\ UNCHANGED notShared

NextShared ==
    \/ SharedClone
    \/ \E h \in Handles : SharedInvokeLock(h)
    \/ \E h \in Handles : \E panics \in BOOLEAN : SharedInvokeCall(h, panics)

SpecShared == InitShared /\ [][NextShared]_vars

\* C10: once an invocation of the shared function has panicked under the
\* lock, every later invoke through any handle panics at the lock: the
\* closure is not called again and no invoke returns a value.
C10_Step ==
    poisoned =>
        /\ poisoned'
        /\ calls' = calls
        /\ \A h \in Handles :
              /\ at'[h] = "idle"
              /\ out'[h] # out[h] => out'[h].kind = "poisoned"

\* C10: after a panic under the lock every invoke through any handle fails
\* fast, without a call of the closure and without a value.
C10_PoisonedFailsFast == [][C10_Step]_vars

C10_Witness ==
    /\ poisoned
    /\ \E h, g \in Handles :
          h # g /\ out[h].kind = "panic" /\ out[g].kind = "poisoned"

\* ---------------------------------------------------------------- Suspend
\* impl AttributeValue for Suspend<Fut>.  A slot is the Rc<RefCell<Option<
\* V::State>>> of one build/hydrate: held is its content, handle tells whether
\* the caller still has the Rc that build returned, attr is the attribute of
\* the element the slot was built for (0: no attribute), writes counts the
\* assignments of Some(..) to the slot, borrow is the task that has the
\* RefCell mutably borrowed (0: nobody).  A task is one future given to
\* Executor::spawn_local: it waits for its future ("pending"), is woken when
\* the future resolves ("ready") and then runs to its end ("done").  Every
\* future resolves to a value of its own, the number of its task.
Tasks == 1..Len(stasks)
Slots == 1..Len(sslots)

\* V::build(el, key) of the resolved value: the attribute is set, and the
\* state made by task tid remembers the value.
AttrV_build(val, tid) ==
    [state |-> [kind |-> "attr", id |-> tid, via |-> "build", val |-> val],
     attr |-> val]

\* V::hydrate(key, el): the state attaches to the attribute the markup has.
AttrV_hydrate(val, tid, attr) ==
    [state |-> [kind |-> "attr", id |-> tid, via |-> "hydrate", val |-> val],
     attr |-> attr]

\* V::rebuild(key, state): the state is updated in place and the attribute set.
AttrV_rebuild(val, state) ==
    [state |-> [state EXCEPT !.val = val], attr |-> val]

EmptySlot(attr) ==
    [held |-> None, handle |-> TRUE, attr |-> attr, writes |-> 0,
     borrow |-> 0]

NewTask(kind, s, early) ==
    [kind |-> kind, slot |-> s, st |-> "pending", resolved |-> FALSE,
     early |-> early, sawEmpty |-> FALSE, ran |-> "none", orphan |-> FALSE,
     late |-> FALSE]

\* A variant with a fault: build waits for the future and returns the slot
\* already populated.
Suspend_build_blocks(s, tid) ==
    [slot |-> [EmptySlot(0) EXCEPT !.held = AttrV_build(tid, tid).state,
                                   !.attr = tid, !.writes = 1],
     task |-> [NewTask("build", s, FALSE) EXCEPT !.st = "done"]]

\* Suspend::build: Rc::new(RefCell::new(None)), spawn_local, return the Rc.
Suspend_build(s, tid) ==
    [slot |-> EmptySlot(0), task |-> NewTask("build", s, FALSE)]

\* Suspend::hydrate: the same, on an element whose markup has the attribute.
Suspend_hydrate(s, tid) ==
    [slot |-> EmptySlot(tid), task |-> NewTask("hydrate", s, FALSE)]

\* Suspend::rebuild: spawn_local of a task on a clone of the slot's Rc.
Suspend_rebuild(s, slotrec) ==
    NewTask("rebuild", s, slotrec.held = None)

\* A variant with a fault: the task writes the slot made last, not its own.
Suspend_task_slot_latest(task, slots) == Len(slots)

\* The slot a task writes: the Rc it cloned when it was spawned.
Suspend_task_slot(task, slots) == task.slot

\* A variant with a fault: the build task drops the resolved value.
Suspend_build_task_forgets(tid, slotrec) == slotrec

\* *state.borrow_mut() = Some(self.await.build(&el, &key));
Suspend_build_task(tid, slotrec) ==
    LET b == AttrV_build(tid, tid) IN
    [slotrec EXCEPT !.held = b.state, !.attr = b.attr, !.writes = @ + 1]

\* *state.borrow_mut() = Some(self.await.hydrate::<FROM_SERVER>(&key, &el));
Suspend_hydrate_task(tid, slotrec) ==
    LET b == AttrV_hydrate(tid, tid, slotrec.attr) IN
    [slotrec EXCEPT !.held = b.state, !.attr = b.attr, !.writes = @ + 1]

\* Variants with a fault: an empty slot is populated by the rebuild task; a
\* populated slot gets a new state in place of the one it holds.
Suspend_rebuild_task_builds_when_empty(tid, slotrec) ==
    IF slotrec.held # None
    THEN LET b == AttrV_rebuild(tid, slotrec.held) IN
         [slotrec EXCEPT !.held = b.state, !.attr = b.attr]
    ELSE LET b == AttrV_build(tid, tid) IN
         [slotrec EXCEPT !.held = b.state, !.attr = b.attr, !.writes = @ + 1]

Suspend_rebuild_task_replaces(tid, slotrec) ==
    IF slotrec.held # None
    THEN LET b == AttrV_build(tid, tid) IN
         [slotrec EXCEPT !.held = b.state, !.attr = b.attr, !.writes = @ + 1]
    ELSE slotrec

\* A variant with a fault: a value is applied only over the value of an
\* earlier call, so that the slot follows the order of the calls.
Suspend_rebuild_task_in_call_order(tid, slotrec) ==
    IF slotrec.held # None /\ slotrec.held.val < tid
    THEN LET b == AttrV_rebuild(tid, slotrec.held) IN
         [slotrec EXCEPT !.held = b.state, !.attr = b.attr]
    ELSE slotrec

\* A variant with a fault: the rebuild task never applies its value.
Suspend_rebuild_task_drops(tid, slotrec) == slotrec

\* let value = self.await; let mut state = state.borrow_mut();
\* if let Some(state) = state.as_mut() { value.rebuild(&key, state); }
Suspend_rebuild_task(tid, slotrec) ==
    IF slotrec.held # None
    THEN LET b == AttrV_rebuild(tid, slotrec.held) IN
         [slotrec EXCEPT !.held = b.state, !.attr = b.attr]
    ELSE slotrec

Suspend_task_body(task, tid, slotrec) ==
    CASE task.kind = "build" -> Suspend_build_task(tid, slotrec)
      [] task.kind = "hydrate" -> Suspend_hydrate_task(tid, slotrec)
      [] task.kind = "rebuild" -> Suspend_rebuild_task(tid, slotrec)

\* A variant with a fault: the slot is borrowed first and the future is
\* awaited with the borrow held.
Suspend_task_steps_borrow_first(kind) ==
    <<"borrow", "await", "write", "release">>

\* The steps of a spawned task in program order.  In build and hydrate the
\* assigned value (self.await.build(..)) is evaluated before the assignee
\* (*state.borrow_mut()), and the RefMut is dropped at the end of the
\* statement; in rebuild the await comes first, then borrow_mut, the
\* if-let and the drop of the RefMut at the end of the block.
Suspend_task_steps(kind) ==
    <<"await", "borrow", "write", "release">>

AwaitAt(steps) == CHOOSE i \in 1..Len(steps) : steps[i] = "await"
StepsBefore(steps) == SubSeq(steps, 1, AwaitAt(steps) - 1)
StepsAfter(steps) == SubSeq(steps, AwaitAt(steps) + 1, Len(steps))

\* One poll of task tid runs the steps up to its next suspension or its end.
\* borrow_mut on a RefCell that is already borrowed panics.
RECURSIVE RunSteps(_, _, _, _)
RunSteps(steps, task, tid, slotrec) ==
    IF steps = <<>> THEN [slot |-> slotrec, panicked |-> FALSE]
    ELSE CASE Head(steps) = "borrow" ->
                 IF slotrec.borrow # 0
                 THEN [slot |-> slotrec, panicked |-> TRUE]
                 ELSE RunSteps(Tail(steps), task, tid,
                               [slotrec EXCEPT !.borrow = tid])
           [] Head(steps) = "write" ->
                 RunSteps(Tail(steps), task, tid,
                          Suspend_task_body(task, tid, slotrec))
           [] Head(steps) = "release" ->
                 RunSteps(Tail(steps), task, tid,
                          [slotrec EXCEPT !.borrow = 0])

\* The task after the steps that come before its await: suspended, or ended
\* by a panic.  These steps are run with the spawn: there are none in the
\* source, so the time of the first poll makes no difference.
Started(task, r) ==
    IF r.panicked THEN [task EXCEPT !.st = "done", !.ran = "panicked"]
    ELSE task

InitSuspend ==
    /\ sig = [s \in Sigs |-> 0]
    /\ tree = <<SibA, SibB>>
    /\ text = <<-1, -2>>
    /\ eff = <<>>
    /\ slot = 0
    /\ pc = "idle"
    /\ hand = None
    /\ nBatches = 0
    /\ nRebuilds = 0
    /\ bholder = None
    /\ blast = None
    /\ poisoned = FALSE
    /\ calls = 0
    /\ at = <<"idle">>
    /\ out = <<None>>
    /\ SuspendIdle
    /\ ServerIdle

SuspendBuild ==
    /\ Len(sslots) < MaxSlots /\ Len(stasks) < MaxTasks
    /\ LET r == Suspend_build(Len(sslots) + 1, Len(stasks) + 1)
           p == RunSteps(StepsBefore(Suspend_task_steps("build")),
                         r.task, Len(stasks) + 1, r.slot) IN
       /\ sslots' = Append(sslots, p.slot)
       /\ stasks' = Append(stasks, Started(r.task, p))
    /\ UNCHANGED notSuspend

SuspendHydrate ==
    /\ Len(sslots) < MaxSlots /\ Len(stasks) < MaxTasks
    /\ LET r == Suspend_hydrate(Len(sslots) + 1, Len(stasks) + 1)
           p == RunSteps(StepsBefore(Suspend_task_steps("hydrate")),
                         r.task, Len(stasks) + 1, r.slot) IN
       /\ sslots' = Append(sslots, p.slot)
       /\ stasks' = Append(stasks, Started(r.task, p))
    /\ UNCHANGED notSuspend

\* rebuild(self, key, &mut state) by a caller that has the slot's handle.
SuspendRebuild(s) ==
    /\ s \in Slots /\ sslots[s].handle
    /\ Len(stasks) < MaxTasks
    /\ LET task == Suspend_rebuild(s, sslots[s])
           p == RunSteps(StepsBefore(Suspend_task_steps("rebuild")),
                         task, Len(stasks) + 1, sslots[s]) IN
       /\ sslots' = [sslots EXCEPT ![s] = p.slot]
       /\ stasks' = Append(stasks, Started(task, p))
    /\ UNCHANGED notSuspend

\* The caller drops the Rc that build/hydrate returned.
SuspendDropHandle(s) ==
    /\ s \in Slots /\ sslots[s].handle
    /\ sslots' = [sslots EXCEPT ![s].handle = FALSE]
    /\ UNCHANGED stasks
    /\ UNCHANGED notSuspend

\* The future of task t resolves and wakes the task.
Resolve(t) ==
    /\ t \in Tasks /\ stasks[t].st = "pending"
    /\ stasks' = [stasks EXCEPT ![t].st = "ready", ![t].resolved = TRUE]
    /\ UNCHANGED sslots

FutureResolves(t) == Resolve(t) /\ UNCHANGED notSuspend

\* The executor polls the woken task t, which runs to its end.  sawEmpty, ran,
\* orphan and late record whether the slot was empty when the task ran, what
\* the run did to the slot, whether the slot's handle was gone, and whether a
\* later build had made another slot.
Poll(t) ==
    /\ t \in Tasks /\ stasks[t].st = "ready"
    /\ LET s == Suspend_task_slot(stasks[t], sslots)
           old == sslots[s]
           r == RunSteps(StepsAfter(Suspend_task_steps(stasks[t].kind)),
                         stasks[t], t, old)
           new == r.slot IN
       /\ sslots' = [sslots EXCEPT ![s] = new]
       /\ stasks' = [stasks EXCEPT
             ![t].st = "done",
             ![t].orphan = ~sslots[stasks[t].slot].handle,
             ![t].late = (Len(sslots) > stasks[t].slot),
             ![t].sawEmpty = (old.held = None),
             ![t].ran = IF r.panicked THEN "panicked"
                        ELSE IF new = old THEN "dropped"
                        ELSE IF new.writes # old.writes THEN "wrote"
                        ELSE "applied"]

TaskRuns(t) == Poll(t) /\ UNCHANGED notSuspend

NextSuspend ==
    \/ SuspendBuild
    \/ SuspendHydrate
    \/ \E s \in 1..MaxSlots : SuspendRebuild(s)
    \/ \E s \in 1..MaxSlots : SuspendDropHandle(s)
    \/ \E t \in 1..MaxTasks : FutureResolves(t)
    \/ \E t \in 1..MaxTasks : TaskRuns(t)

SpecSuspend == InitSuspend /\ [][NextSuspend]_vars

\* The single-threaded executor runs every woken task.
SpecSuspendFair ==
    SpecSuspend /\ \A t \in 1..MaxTasks : WF_vars(TaskRuns(t))

\* The task that build/hydrate spawned for slot s.
BuilderOf(s) ==
    CHOOSE t \in Tasks : stasks[t].slot = s /\ stasks[t].kind # "rebuild"

RebuildTasks == {t \in Tasks : stasks[t].kind = "rebuild"}

\* Task t takes its step from woken to finished.
Ran(t) == t \in Tasks /\ stasks[t].st = "ready" /\ stasks'[t].st = "done"

\* C11: Suspend build/hydrate return at once with an empty slot: the slot is
\* empty as long as the future of its task has not resolved or the woken task
\* has not run, and until then a built element has no attribute.
C11_EmptyUntilResolved ==
    \A s \in Slots :
        LET b == stasks[BuilderOf(s)] IN
        (~b.resolved \/ b.st # "done") =>
            /\ sslots[s].held = None
            /\ sslots[s].writes = 0
            /\ b.kind = "build" => sslots[s].attr = 0

C11_Witness ==
    \E s \in Slots :
        /\ stasks[BuilderOf(s)].kind = "build"
        /\ stasks[BuilderOf(s)].st = "ready"
        /\ sslots[s].held = None /\ sslots[s].attr = 0

\* Slot s holds the state that its own build/hydrate task made.
Populated(s) ==
    /\ s \in Slots
    /\ sslots[s].held # None
    /\ sslots[s].held.id = BuilderOf(s)
    /\ sslots[s].held.via = stasks[BuilderOf(s)].kind

\* C12: under fair scheduling of the woken tasks, once the future of a slot's
\* build/hydrate task has resolved the slot eventually holds the state built
\* or hydrated by that task, and holds it forever after.
C12_EventuallyPopulated ==
    \A s \in 1..MaxSlots :
        (s \in Slots /\ stasks[BuilderOf(s)].resolved) ~> [](Populated(s))

C12_Witness ==
    \E s \in Slots :
        /\ Populated(s)
        /\ sslots[s].held.via = "build"
        /\ sslots[s].held.val = BuilderOf(s)
        /\ sslots[s].attr = BuilderOf(s)

C13_StateInv ==
    /\ \A s \in Slots :
          /\ sslots[s].writes <= 1
          /\ sslots[s].held # None <=> stasks[BuilderOf(s)].st = "done"
          /\ sslots[s].held # None <=> sslots[s].writes = 1
          /\ sslots[s].held # None => Populated(s)
    /\ \A t \in RebuildTasks : stasks[t].ran # "wrote"

C13_Step ==
    \A s \in Slots :
        /\ sslots[s].held # None =>
              /\ sslots'[s].held # None
              /\ sslots'[s].held.id = sslots[s].held.id
              /\ sslots'[s].held.via = sslots[s].held.via
        /\ (sslots[s].held = None /\ sslots'[s].held # None) =>
              Ran(BuilderOf(s))

\* C13: a slot is populated at most once, by the task of its build/hydrate
\* and with that task's build or hydrate state; no rebuild task populates an
\* empty slot; a populated slot stays populated with the same state.
C13_PopulatedOnce == []C13_StateInv /\ [][C13_Step]_vars

C13_Witness ==
    \E t \in RebuildTasks :
        /\ stasks[t].st = "done" /\ stasks[t].sawEmpty
        /\ Populated(stasks[t].slot)

\* C14 as stated: a rebuild called while the slot was empty is never applied.
C14_EarlyRebuildNeverApplied ==
    \A t \in RebuildTasks : stasks[t].early => stasks[t].ran # "applied"

\* C14, amended: a rebuild called while the slot was empty is dropped exactly
\* when its own task runs while the slot is still empty, and then its value
\* never reaches the slot; when its task runs after the build/hydrate task
\* populated the slot, its value is applied.
C14_EarlyRebuildDroppedIffRunsWhileEmpty ==
    \A t \in RebuildTasks :
        (stasks[t].early /\ stasks[t].st = "done") =>
            /\ stasks[t].sawEmpty =>
                  /\ stasks[t].ran = "dropped"
                  /\ sslots[stasks[t].slot].held # None =>
                        sslots[stasks[t].slot].held.val # t
            /\ ~stasks[t].sawEmpty => stasks[t].ran = "applied"

C14_Witness ==
    \E t \in RebuildTasks :
        /\ stasks[t].early /\ stasks[t].ran = "applied"
        /\ sslots[stasks[t].slot].held.val = t

C15_StateInv ==
    \A t \in RebuildTasks :
        (stasks[t].st = "done" /\ stasks[t].sawEmpty) =>
            /\ stasks[t].ran = "dropped"
            /\ sslots[stasks[t].slot].attr # t
            /\ sslots[stasks[t].slot].held # None =>
                  sslots[stasks[t].slot].held.val # t

C15_Step ==
    \A t \in RebuildTasks :
        Ran(t) =>
            LET old == sslots[stasks[t].slot]
                new == sslots'[stasks[t].slot] IN
            IF old.held = None
            THEN new = old
            ELSE /\ new.held = [old.held EXCEPT !.val = t]
                 /\ new.attr = t
                 /\ new.writes = old.writes
                 /\ new.handle = old.handle

\* C15: a rebuild task that runs on an empty slot leaves the slot as it is and
\* finishes, and its value never reaches the slot later; one that runs on a
\* populated slot updates the state the slot holds, in place.
C15_RebuildTask == []C15_StateInv /\ [][C15_Step]_vars

C15_Witness ==
    \E t \in RebuildTasks :
        /\ ~stasks[t].early /\ stasks[t].ran = "applied"
        /\ sslots[stasks[t].slot].held.val = t
        /\ sslots[stasks[t].slot].held.id = BuilderOf(stasks[t].slot)

C20_Step ==
    /\ \A t \in Tasks :
          Ran(t) => \A s \in Slots :
                        s # stasks[t].slot => sslots'[s] = sslots[s]
    /\ Len(sslots') > Len(sslots) =>
          /\ Len(sslots') = Len(sslots) + 1
          /\ Len(stasks') = Len(stasks) + 1
          /\ sslots'[Len(sslots')] \in {EmptySlot(0), EmptySlot(Len(stasks'))}
          /\ stasks'[Len(stasks')].slot = Len(sslots')
          /\ \A s \in Slots : sslots'[s] = sslots[s]
          /\ \A t \in Tasks : stasks'[t] = stasks[t]

\* C20: build/hydrate make a slot of their own and leave the others alone, and
\* a task writes its own slot only, also when it runs after the slot's handle
\* was dropped or after a later build made another slot.
C20_TaskWritesOwnSlot == [][C20_Step]_vars

C20_Witness ==
    \E t \in Tasks :
        /\ stasks[t].kind # "rebuild" /\ stasks[t].st = "done"
        /\ stasks[t].orphan /\ stasks[t].late
        /\ Populated(stasks[t].slot)
        /\ \E s \in Slots : s # stasks[t].slot /\ sslots[s].held = None

\* ------------------------------------------------------ HTML serialization
\* impl RenderHtml for F :: to_html_with_buf / to_html_async_with_buf and
\* impl AttributeValue for F :: to_html.  buf is what has been written, one
\* chunk per call: the mode, the function, the text of the value and the
\* number of times the call invoked the function.
Modes == {"to_html_with_buf", "to_html_async_with_buf", "attr_to_html"}

\* The produced value's own serialization: its text goes to the buffer.
Value_to_html(value, b) == Append(b, value)

\* A variant with a fault: serialization binds the function to a render
\* effect, as build does, and writes what the effect holds.
F_to_html_makes_effect(f, sg, b, effs, txt) ==
    LET r == RenderEffect_new(f, sg, txt) IN
    [buf |-> Value_to_html(r.text[r.effect.value.node], b),
     eff |-> Append(effs, r.effect), text |-> r.text, invoked |-> 1]

\* let value = self.invoke(); value.to_html_with_buf(buf, ..) -- the three
\* serialization functions have this one body.
F_to_html(f, sg, b, effs, txt) ==
    LET value == FnValue(f, sg) IN
    [buf |-> Value_to_html(value, b), eff |-> effs, text |-> txt,
     invoked |-> 1]

InitHtml ==
    /\ sig = [s \in Sigs |-> 0]
    /\ tree = <<SibA, SibB>>
    /\ text = <<-1, -2>>
    /\ eff = <<>>
    /\ slot = 0
    /\ pc = "idle"
    /\ hand = None
    /\ nBatches = 0
    /\ nRebuilds = 0
    /\ bholder = None
    /\ blast = None
    /\ poisoned = FALSE
    /\ calls = 0
    /\ at = <<"idle">>
    /\ out = <<None>>
    /\ SuspendIdle
    /\ ServerIdle

\* One of the three serialization functions is called on the function f.
ToHtml(f, mode) ==
    /\ Len(buf) < MaxWrites
    /\ LET r == F_to_html(f, sig, <<>>, eff, text) IN
       /\ buf' = Append(buf, [mode |-> mode, fn |-> f, val |-> r.buf[1],
                              invoked |-> r.invoked])
       /\ eff' = r.eff
       /\ text' = r.text
    /\ UNCHANGED sig
    /\ UNCHANGED notHtml

\* A batch of signal writes after serialization, and the re-runs it triggers.
HtmlBatch(S, new) ==
    /\ \A s \in Sigs \ S : new[s] = sig[s]
    /\ sig' = new
    /\ LET r == Notify(1, eff, S, sig', text) IN
       /\ eff' = r.eff
       /\ text' = r.text
    /\ UNCHANGED buf
    /\ UNCHANGED notHtml

NextHtml ==
    \/ \E f \in Fns, mode \in Modes : ToHtml(f, mode)
    \/ \E S \in (SUBSET Sigs) \ {{}}, new \in [Sigs -> Vals] : HtmlBatch(S, new)

SpecHtml == InitHtml /\ [][NextHtml]_vars

\* Runs of effects: every invocation of a function that is not made by a
\* serialization call itself.
RECURSIVE EffectRuns(_)
EffectRuns(effs) ==
    IF effs = <<>> THEN 0 ELSE Head(effs).runs + EffectRuns(Tail(effs))

C16_StateInv ==
    /\ eff = <<>>
    /\ EffectRuns(eff) = 0
    /\ \A i \in 1..Len(buf) : buf[i].invoked = 1

C16_Step ==
    /\ \A i \in 1..Len(buf) : buf'[i] = buf[i]
    /\ Len(buf') > Len(buf) =>
          /\ Len(buf') = Len(buf) + 1
          /\ buf'[Len(buf')].val = FnValue(buf'[Len(buf')].fn, sig)
          /\ eff' = eff /\ text' = text /\ sig' = sig

\* C16: each serialization call invokes the function once, writes the text
\* of the value and creates no effect; what was written never changes and no
\* effect ever runs, whatever is written to the signals afterwards.
C16_SerializeOnce == []C16_StateInv /\ [][C16_Step]_vars

C16_Witness ==
    \E i, j \in 1..Len(buf) :
        /\ buf[i].mode = "to_html_async_with_buf"
        /\ buf[j].mode = "attr_to_html"
        /\ buf[i].val # FnValue(buf[i].fn, sig)
        /\ buf[j].val # FnValue(buf[j].fn, sig)

\* ------------------------------------------------- cells in view position
\* The observable cell varieties the two macros are instantiated for, and the
\* $dry_resolve literal each instantiation passes.
Varieties ==
    {"RwSignal", "ReadSignal", "Memo", "Signal", "MaybeSignal",
     "ArcRwSignal", "ArcReadSignal", "ArcMemo", "ArcSignal"}

DryResolveFlag(c) ==
    CASE c = "RwSignal" -> FALSE
      [] c = "ReadSignal" -> FALSE
      [] c = "Memo" -> TRUE
      [] c = "Signal" -> TRUE
      [] c = "MaybeSignal" -> TRUE
      [] c = "ArcRwSignal" -> FALSE
      [] c = "ArcReadSignal" -> FALSE
      [] c = "ArcMemo" -> FALSE
      [] c = "ArcSignal" -> TRUE

Memoized == {"Memo", "ArcMemo"}
TypeErased == {"Signal", "MaybeSignal", "ArcSignal"}
PlainSignals == {"RwSignal", "ReadSignal", "ArcRwSignal", "ArcReadSignal"}

\* RenderHtml::dry_resolve of the macros: if $dry_resolve { _ = self.get(); }
Cell_dry_resolve(c, rec) ==
    [rec EXCEPT !.calls = @ + 1,
                !.reads = IF DryResolveFlag(c) THEN @ + 1 ELSE @]

InitCells ==
    /\ sig = [s \in Sigs |-> 0]
    /\ tree = <<SibA, SibB>>
    /\ text = <<-1, -2>>
    /\ eff = <<>>
    /\ slot = 0
    /\ pc = "idle"
    /\ hand = None
    /\ nBatches = 0
    /\ nRebuilds = 0
    /\ bholder = None
    /\ blast = None
    /\ poisoned = FALSE
    /\ calls = 0
    /\ at = <<"idle">>
    /\ out = <<None>>
    /\ SuspendIdle
    /\ HtmlIdle /\ HydrateIdle
    /\ cells = [c \in Varieties |-> [calls |-> 0, reads |-> 0]]

\* The dry pre-pass reaches a cell of variety c in view position.
DryResolve(c) ==
    /\ cells[c].calls < MaxDry
    /\ cells' = [cells EXCEPT ![c] = Cell_dry_resolve(c, @)]
    /\ UNCHANGED notCells

NextCells == \E c \in Varieties : DryResolve(c)

SpecCells == InitCells /\ [][NextCells]_vars

\* C17: in the dry pre-pass every memoized and every type-erased variety
\* reads the cell on each call, and no plain signal variety ever reads it.
C17_EagerReadByKind ==
    /\ \A c \in Memoized \cup TypeErased : cells[c].reads = cells[c].calls
    /\ \A c \in PlainSignals : cells[c].reads = 0

\* ------------------------------------------- hydration, dynamic attributes
\* impl RenderHtml for F :: hydrate and impl AttributeValue for F :: hydrate /
\* build / rebuild.  The document has two text nodes, which the cursor of a
\* hydration walk can point at, and one attribute of an element (el, key);
\* dom[p] is the content of place p, and the markup comes with content 0.
TextPlaces == {1, 2}
AttrPlaces == {3}
Places == TextPlaces \cup AttrPlaces
Markup == [p \in Places |-> 0]

\* The produced value's own operations.  hydrate attaches to the place the
\* cursor (or el and key) names and creates nothing; build of a text value
\* creates a node, build of an attribute value sets the attribute; rebuild
\* sets the content of the place the state is attached to.
Doc_hydrate(value, p, d) == [state |-> Leaf(p), dom |-> d]

Doc_build_text(value, d) ==
    [state |-> Leaf(Len(d) + 1), dom |-> Append(d, value)]

Doc_build_attr(value, p, d) ==
    [state |-> Leaf(p), dom |-> [d EXCEPT ![p] = value]]

Doc_rebuild(value, state, d) == [d EXCEPT ![state.node] = value]

\* A variant with a fault: the first run builds a new node.
Hydrate_closure_builds(f, prev, sg, p, d) ==
    LET value == FnValue(f, sg) IN
    IF prev # None
    THEN [state |-> prev, dom |-> Doc_rebuild(value, prev, d),
          invoked |-> 1, hydrated |-> 0, built |-> 0, rebuilt |-> 1]
    ELSE LET b == Doc_build_text(value, d) IN
         [state |-> b.state, dom |-> b.dom,
          invoked |-> 1, hydrated |-> 0, built |-> 1, rebuilt |-> 0]

\* The closure hydrate hands to RenderEffect::new, in view position (178-186)
\* and in attribute position (300-308); p is the captured cursor and
\* position, or the captured element and key.
Hydrate_closure(f, prev, sg, p, d) ==
    LET value == FnValue(f, sg) IN
    IF prev # None
    THEN [state |-> prev, dom |-> Doc_rebuild(value, prev, d),
          invoked |-> 1, hydrated |-> 0, built |-> 0, rebuilt |-> 1]
    ELSE LET b == Doc_hydrate(value, p, d) IN
         [state |-> b.state, dom |-> b.dom,
          invoked |-> 1, hydrated |-> 1, built |-> 0, rebuilt |-> 0]

\* The closure AttributeValue::build hands to RenderEffect::new (321-329).
AttrBuild_closure(f, prev, sg, p, d) ==
    LET value == FnValue(f, sg) IN
    IF prev # None
    THEN [state |-> prev, dom |-> Doc_rebuild(value, prev, d),
          invoked |-> 1, hydrated |-> 0, built |-> 0, rebuilt |-> 1]
    ELSE LET b == Doc_build_attr(value, p, d) IN
         [state |-> b.state, dom |-> b.dom,
          invoked |-> 1, hydrated |-> 0, built |-> 1, rebuilt |-> 0]

Place_closure(kind, f, prev, sg, p, d) ==
    IF kind = "attr_build" THEN AttrBuild_closure(f, prev, sg, p, d)
    ELSE Hydrate_closure(f, prev, sg, p, d)

\* RenderEffect::new and a re-run, for the closures above.
PlaceEffect_new(kind, f, sg, p, d) ==
    LET r == Place_closure(kind, f, None, sg, p, d) IN
    [effect |-> [kind |-> kind, fn |-> f, captured |-> p, value |-> r.state,
                 live |-> TRUE, runs |-> r.invoked, hydrates |-> r.hydrated,
                 builds |-> r.built, rebuilds |-> r.rebuilt, triggers |-> 0],
     dom |-> r.dom]

PlaceEffect_rerun(rec, sg, d) ==
    LET r == Place_closure(rec.kind, rec.fn, rec.value, sg, rec.captured, d) IN
    [effect |-> [rec EXCEPT !.value = r.state,
                            !.runs = @ + r.invoked,
                            !.hydrates = @ + r.hydrated,
                            !.builds = @ + r.built,
                            !.rebuilds = @ + r.rebuilt],
     dom |-> r.dom]

\* One mutation batch writing the signals in S: the live effects of the
\* places i..Len(bnd) that read one of them re-run once, in turn.
RECURSIVE PlaceNotify(_, _, _, _, _)
PlaceNotify(i, bnd, S, sg, d) ==
    IF i > Len(bnd) THEN [bound |-> bnd, dom |-> d]
    ELSE IF bnd[i] # None /\ bnd[i].live /\ FnDeps(bnd[i].fn) \cap S # {}
    THEN LET r == PlaceEffect_rerun(bnd[i], sg, d) IN
         PlaceNotify(i + 1, [bnd EXCEPT ![i] = r.effect], S, sg, r.dom)
    ELSE PlaceNotify(i + 1, bnd, S, sg, d)

\* A variant with a fault: rebuild drops the old effect and builds the
\* attribute anew from the function it is given.
AttrF_rebuild_rebinds(g, rec, sg, d) ==
    PlaceEffect_new("attr_build", g, sg, rec.captured, d)

\* fn rebuild(self, _key: &str, _state: &mut Self::State) { // TODO rebuild }
AttrF_rebuild(g, rec, sg, d) == [effect |-> rec, dom |-> d]

InitHydrate ==
    /\ sig = [s \in Sigs |-> 0]
    /\ tree = <<SibA, SibB>>
    /\ text = <<-1, -2>>
    /\ eff = <<>>
    /\ slot = 0
    /\ pc = "idle"
    /\ hand = None
    /\ nBatches = 0
    /\ nRebuilds = 0
    /\ bholder = None
    /\ blast = None
    /\ poisoned = FALSE
    /\ calls = 0
    /\ at = <<"idle">>
    /\ out = <<None>>
    /\ SuspendIdle
    /\ HtmlIdle /\ CellsIdle
    /\ dom = Markup
    /\ bound = [p \in Places |-> None]
    /\ arb = [p \in Places |-> 0]

\* The hydration walk reaches a reactive function in view position with its
\* cursor at text node p.
HydrateView(f, p) ==
    /\ p \in TextPlaces /\ bound[p] = None
    /\ LET r == PlaceEffect_new("hydrate", f, sig, p, dom) IN
       /\ bound' = [bound EXCEPT ![p] = r.effect]
       /\ dom' = r.dom
    /\ UNCHANGED <<sig, nBatches, arb>>
    /\ UNCHANGED notHydrate

\* AttributeValue::hydrate of a reactive function for the attribute p.
AttrHydrate(f, p) ==
    /\ p \in AttrPlaces /\ bound[p] = None
    /\ LET r == PlaceEffect_new("attr_hydrate", f, sig, p, dom) IN
       /\ bound' = [bound EXCEPT ![p] = r.effect]
       /\ dom' = r.dom
    /\ UNCHANGED <<sig, nBatches, arb>>
    /\ UNCHANGED notHydrate

\* AttributeValue::build of a reactive function for the attribute p.
AttrBuild(f, p) ==
    /\ p \in AttrPlaces /\ bound[p] = None
    /\ LET r == PlaceEffect_new("attr_build", f, sig, p, dom) IN
       /\ bound' = [bound EXCEPT ![p] = r.effect]
       /\ dom' = r.dom
    /\ UNCHANGED <<sig, nBatches, arb>>
    /\ UNCHANGED notHydrate

\* AttributeValue::rebuild of the function g on the state of attribute p;
\* arb[p] records the function passed last.
AttrRebuild(g, p) ==
    /\ p \in AttrPlaces /\ bound[p] # None
    /\ LET r == AttrF_rebuild(g, bound[p], sig, dom) IN
       /\ bound' = [bound EXCEPT ![p] = r.effect]
       /\ dom' = r.dom
    /\ arb' = [arb EXCEPT ![p] = g]
    /\ UNCHANGED <<sig, nBatches>>
    /\ UNCHANGED notHydrate

\* A batch of signal writes, and the re-runs it triggers.
HydrateBatch(S, new) ==
    /\ nBatches < MaxBatches
    /\ \A s \in Sigs \ S : new[s] = sig[s]
    /\ sig' = new
    /\ LET r == PlaceNotify(1, bound, S, sig', dom) IN
       /\ bound' = [p \in Places |->
                      IF bound[p] # None /\ bound[p].live
                         /\ FnDeps(bound[p].fn) \cap S # {}
                      THEN [r.bound[p] EXCEPT !.triggers = @ + 1]
                      ELSE r.bound[p]]
       /\ dom' = r.dom
    /\ nBatches' = nBatches + 1
    /\ UNCHANGED arb
    /\ UNCHANGED notHydrate

NextHydrate ==
    \/ \E f \in Fns, p \in Places : HydrateView(f, p)
    \/ \E f \in Fns, p \in Places : AttrHydrate(f, p)
    \/ \E f \in Fns, p \in Places : AttrBuild(f, p)
    \/ \E g \in Fns, p \in Places : AttrRebuild(g, p)
    \/ \E S \in (SUBSET Sigs) \ {{}}, new \in [Sigs -> Vals] :
          HydrateBatch(S, new)

SpecHydrate == InitHydrate /\ [][NextHydrate]_vars

Hydrated == {p \in Places : bound[p] # None /\ bound[p].kind # "attr_build"}

\* C18: an effect made by hydrate calls the value's hydrate once, on its
\* first run and at the place captured when it was made; every later run
\* rebuilds the state it carries; it never builds, and the document gets no
\* new node.
C18_HydrateOnceThenRebuild ==
    /\ Len(dom) = Cardinality(Places)
    /\ \A p \in Hydrated :
          /\ bound[p].hydrates = 1
          /\ bound[p].builds = 0
          /\ bound[p].runs = 1 + bound[p].triggers
          /\ bound[p].rebuilds = bound[p].runs - 1
          /\ bound[p].captured = p
          /\ bound[p].value = Leaf(p)
          /\ bound[p].triggers = 0 => dom[p] = Markup[p]
          /\ bound[p].triggers > 0 => dom[p] = FnValue(bound[p].fn, sig)

C18_Witness ==
    /\ \E p \in TextPlaces :
          /\ p \in Hydrated /\ bound[p].rebuilds = MaxBatches
          /\ dom[p] # Markup[p]
    /\ \E p \in AttrPlaces :
          /\ p \in Hydrated /\ bound[p].rebuilds > 0
          /\ dom[p] # Markup[p]

C19_StateInv ==
    \A p \in AttrPlaces :
        arb[p] # 0 =>
            /\ bound[p] # None /\ bound[p].live
            /\ bound[p].runs = 1 + bound[p].triggers
            /\ bound[p].hydrates + bound[p].builds = 1
            /\ bound[p].value = Leaf(p)
            /\ (bound[p].kind = "attr_build" \/ bound[p].triggers > 0) =>
                  dom[p] = FnValue(bound[p].fn, sig)

C19_Step ==
    \A p \in AttrPlaces :
        /\ arb'[p] # arb[p] => bound' = bound /\ dom' = dom /\ sig' = sig
        /\ bound[p] # None =>
              /\ bound'[p] # None
              /\ bound'[p].fn = bound[p].fn
              /\ bound'[p].kind = bound[p].kind

\* C19: AttributeValue::rebuild changes neither the effect bound to the
\* attribute nor the document and invokes nothing; the effect stays
\* subscribed with the function it was made with, and the attribute keeps
\* the value of that function.
C19_AttrRebuildNoOp == []C19_StateInv /\ [][C19_Step]_vars

C19_Witness ==
    \E p \in AttrPlaces :
        /\ arb[p] # 0 /\ bound[p] # None
        /\ bound[p].kind = "attr_build"
        /\ arb[p] # bound[p].fn
        /\ bound[p].triggers > 0
        /\ dom[p] = FnValue(bound[p].fn, sig)
        /\ dom[p] # FnValue(arb[p], sig)

\* ------------------------------------------- rebuild of any retained state
\* impl Render for F :: rebuild on a slot whose RenderEffectState holds
\* nothing, an effect without a value, a failure, an unresolved value, or a
\* state with a node that is mounted or not.
HandOffHolders ==
    {h \in BridgeHolders : h.kind = "res"}
    \cup {ResState(EffState(SlotState(v))) : v \in {None, Leaf(HNode)}}

\* A variant with a fault: the result of insert_before_this is honoured, and
\* the slot keeps its old state when the new one could not be placed.
Render_rebuild_checks_result(old, txt, t) ==
    LET b == Text_build(0, txt)
        new == ResState(EffState(b.state))
        r == Rebuild_insert_before_this(old, new, t) IN
    IF r.ok
    THEN [state |-> new, text |-> b.text,
          tree |-> Rebuild_unmount(old, r.tree), ret |-> r.ok]
    ELSE [state |-> old, text |-> b.text, tree |-> t, ret |-> r.ok]

\* let new = self.build(); let mut old = std::mem::replace(state, new);
\* old.insert_before_this(state); old.unmount();
Render_rebuild(old, txt, t) ==
    LET b == Text_build(0, txt)
        new == ResState(EffState(b.state))
        r == Rebuild_insert_before_this(old, new, t) IN
    [state |-> new, text |-> b.text,
     tree |-> Rebuild_unmount(old, r.tree), ret |-> r.ok]

InitHandOff ==
    /\ sig = [s \in Sigs |-> 0]
    /\ text = <<-1, -2, 0, 0>>
    /\ eff = <<>>
    /\ slot = 0
    /\ pc = "idle"
    /\ hand = None
    /\ nBatches = 0
    /\ nRebuilds = 0
    /\ bholder \in HandOffHolders
    /\ tree \in {t \in BridgeTrees : HNode \in Elems(t) => HasNode(bholder, HNode)}
    /\ blast = None
    /\ poisoned = FALSE
    /\ calls = 0
    /\ at = <<"idle">>
    /\ out = <<None>>
    /\ SuspendIdle
    /\ ServerIdle

\* Render::rebuild on the slot; blast records the old state, the child list
\* before the call and what insert_before_this returned.
HandOff ==
    /\ nRebuilds < MaxRebuilds
    /\ LET r == Render_rebuild(bholder, text, tree) IN
       /\ bholder' = r.state
       /\ text' = r.text
       /\ tree' = r.tree
       /\ blast' = [kind |-> "op", op |-> "rebuild", before |-> tree,
                    marker |-> 0, child |-> None, ret |-> r.ret,
                    old |-> bholder]
    /\ nRebuilds' = nRebuilds + 1
    /\ UNCHANGED <<sig, eff, slot, pc, hand, nBatches>>
    /\ UNCHANGED <<sharedOnly, suspendOnly, serverOnly>>

NextHandOff ==
    \/ \E m \in {0, SibA, SibB, CNode} : BridgeMount(m)
    \/ BridgeUnmount
    \/ HandOff

SpecHandOff == InitHandOff /\ [][NextHandOff]_vars

\* The nodes a state holds.
NodesOf(h) == {n \in 1..Len(text) : HasNode(h, n)}

\* C21: when insert_before_this of the old state returns false, rebuild has
\* all the same put the new state in the slot and unmounted the old one, and
\* the new state is not mounted: the child list is the one before the call.
C21_RebuildIgnoresResult ==
    (blast # None /\ blast.op = "rebuild" /\ ~blast.ret) =>
        /\ bholder = ResState(EffState(Leaf(Len(text))))
        /\ bholder # blast.old
        /\ ~HasNode(blast.old, Len(text))
        /\ NodesOf(blast.old) \cap Elems(tree) = {}
        /\ Len(text) \notin Elems(tree)
        /\ tree = blast.before

C21_Witness ==
    /\ blast # None /\ blast.op = "rebuild" /\ ~blast.ret
    /\ blast.old = ResState(EffState(ErrState))
    /\ bholder = ResState(EffState(Leaf(Len(text))))
    /\ Len(text) \notin Elems(tree)

\* ------------------------------------------------ borrows of the slot
\* C22: no task has a slot borrowed while it is suspended or after it has
\* ended, and no task ever finds the slot it borrows already borrowed.
C22_NoBorrowAcrossAwait ==
    /\ \A s \in Slots : sslots[s].borrow = 0
    /\ \A t \in Tasks : stasks[t].ran # "panicked"

C22_Witness ==
    \E t \in RebuildTasks :
        /\ stasks[t].st = "done"
        /\ stasks[BuilderOf(stasks[t].slot)].st = "pending"
        /\ \E u \in RebuildTasks :
              u # t /\ stasks[u].slot = stasks[t].slot /\ stasks[u].st = "ready"
        /\ sslots[stasks[t].slot].borrow = 0

\* ----------------------------------------------------- the task queue
\* The executor as a queue: woken tasks are polled in the order they were
\* woken.  woken lists the tasks whose future has resolved, in that order.
Rank(t) == CHOOSE i \in 1..Len(woken) : woken[i] = t

\* The woken task that is polled next: the first one still waiting.
NextWoken ==
    woken[CHOOSE i \in 1..Len(woken) :
              /\ stasks[woken[i]].st = "ready"
              /\ \A j \in 1..(i - 1) : stasks[woken[j]].st # "ready"]

QueueResolves(t) ==
    /\ Resolve(t)
    /\ woken' = Append(woken, t)
    /\ UNCHANGED notQueue

QueueRuns ==
    /\ \E t \in Tasks : stasks[t].st = "ready"
    /\ Poll(NextWoken)
    /\ UNCHANGED woken
    /\ UNCHANGED notQueue

NextQueue ==
    \/ SuspendBuild
    \/ SuspendHydrate
    \/ \E s \in 1..MaxSlots : SuspendRebuild(s)
    \/ \E s \in 1..MaxSlots : SuspendDropHandle(s)
    \/ \E t \in 1..MaxTasks : QueueResolves(t)
    \/ QueueRuns

SpecSuspendQueue == InitSuspend /\ [][NextQueue]_vars

\* The rebuild tasks that have run on slot s when it was populated.
RanOn(s) ==
    {t \in RebuildTasks :
        stasks[t].slot = s /\ stasks[t].st = "done" /\ ~stasks[t].sawEmpty}

LastResolved(S) == CHOOSE t \in S : \A u \in S : Rank(u) <= Rank(t)

\* C23: the state of a populated slot has the value of the rebuild whose
\* future resolved last among those that have run on it, whatever the order
\* in which rebuild was called.
C23_LastResolvedWins ==
    \A s \in Slots :
        RanOn(s) # {} =>
            /\ sslots[s].held # None
            /\ sslots[s].held.val = LastResolved(RanOn(s))
            /\ sslots[s].attr = LastResolved(RanOn(s))

C23_Witness ==
    \E s \in Slots : \E t, u \in RanOn(s) :
        /\ t < u /\ Rank(t) > Rank(u)
        /\ sslots[s].held.val = t
        /\ \A v \in Tasks : stasks[v].st = "done"

====
